---- MODULE Spec2Model ----
(***************************************************************************)
(* SemanticTokensBuffer (src/handler/semanticTokensHighlights/buffer.ts):  *)
(* the per-buffer orchestrator of semantic-token highlighting, with the    *)
(* token decoder and the delta applier it contains.                        *)
(*                                                                         *)
(* Spec        the orchestrator: debounce timer, token sources, the        *)
(*             doHighlight invocations with their suspension points, the   *)
(*             provider and the diff/apply collaborator as environment.    *)
(* SpecDecode  the decoder and the delta applier as pure functions over    *)
(*             bounded flat token arrays.                                  *)
(*                                                                         *)
(* JavaScript values: a string resultId is an integer (NoId is undefined,  *)
(* EmptyId is the empty string, SomeId a non-empty one: the code only      *)
(* tests an id and hands it back); an array object is a reference into     *)
(* heap, so that the in-place splice of line 125 is seen by every holder   *)
(* of the reference.                                                       *)
(***************************************************************************)
EXTENDS Integers, Sequences, FiniteSets, TLC

\* ------------------------------------------------------------- bounds
MaxRunning == 2      \* doHighlight invocations suspended at the same time
MaxRequests == 3     \* provider requests issued in one behaviour
MaxVersion == 2      \* document changes (onChange calls) in one behaviour
MaxQuints == 2       \* quintuples of a flat array drawn for the decoder
MaxDelta == 1        \* largest deltaLine / deltaStartCharacter / length drawn
MaxCached == 2       \* quintuples of a cached flat array
MaxTokens == 3       \* length of a cached array drawn for the delta applier
MaxEdits == 2        \* edits of a delta drawn for the delta applier

\* ---------------------------------------------------------- constants
HLGROUP_PREFIX == "CocSem_"
QUINT == 5
NoId == -1
EmptyId == 0
SomeId == 1
NoRef == 0

\* The legend of the document (languages.getLegend): the spec's example.
Legend == [tokenTypes |-> <<"variable", "function">>, tokenModifiers |-> <<"readonly">>]

\* --------------------------------------------------- the token decoder
\* tokens[i] of a JavaScript array (0-based).
At(tokens, i) == tokens[i + 1]

RECURSIVE Pow2(_)
Pow2(m) == IF m = 0 THEN 1 ELSE 2 * Pow2(m - 1)

\* tokens[i + 4] & (1 << m), as a truth value
BitSet(bits, m) == (bits \div Pow2(m)) % 2 = 1

\* legend.tokenTypes[tokenType]: an index beyond the array reads undefined,
\* which the string concatenation of line 157 renders as "undefined".
TypeName(legend, tokenType) ==
    IF tokenType + 1 \in DOMAIN legend.tokenTypes
    THEN legend.tokenTypes[tokenType + 1]
    ELSE "undefined"

\* legend.tokenModifiers.filter((_, m) => tokens[i + 4] & (1 << m))
Modifiers(legend, bits) ==
    {legend.tokenModifiers[m + 1] : m \in {n \in 0..(Len(legend.tokenModifiers) - 1) : BitSet(bits, n)}}

\* The first loop: one RelativeHighlight per quintuple, in array order.
relatives(tokens, legend) ==
    [k \in 1..(Len(tokens) \div QUINT) |->
        LET i == QUINT * (k - 1) IN
        [tokenType |-> TypeName(legend, At(tokens, i + 3)),
         tokenModifiers |-> Modifiers(legend, At(tokens, i + 4)),
         deltaLine |-> At(tokens, i),
         deltaStartCharacter |-> At(tokens, i + 1),
         length |-> At(tokens, i + 2)]]

\* deltaLine === 0 ? currentCharacter + deltaStartCharacter : deltaStartCharacter
startCharacterAlwaysRelative(deltaLine, currentCharacter, deltaStartCharacter) ==
    currentCharacter + deltaStartCharacter

startCharacterOf(deltaLine, currentCharacter, deltaStartCharacter) ==
    IF deltaLine = 0 THEN currentCharacter + deltaStartCharacter ELSE deltaStartCharacter

\* opts of one item: combine false, both inclusivity flags for variable and string.
optsOf(tokenType) ==
    [combine |-> FALSE,
     end_incl |-> tokenType \in {"variable", "string"},
     start_incl |-> tokenType \in {"variable", "string"}]

\* doc.addHighlights(res, hlGroup, range, opts): one item appended to res.
addHighlights(res, hlGroup, range, opts) ==
    Append(res, [hlGroup |-> hlGroup, range |-> range, opts |-> opts])

\* The second loop: the running cursor (currentLine, currentCharacter).
RECURSIVE highlightLoop(_, _, _, _, _)
highlightLoop(rels, k, currentLine, currentCharacter, res) ==
    IF k > Len(rels) THEN res
    ELSE LET r == rels[k]
             lnum == currentLine + r.deltaLine
             startCharacter == startCharacterOf(r.deltaLine, currentCharacter, r.deltaStartCharacter)
             endCharacter == startCharacter + r.length
         IN highlightLoop(rels, k + 1, lnum, startCharacter,
                addHighlights(res, HLGROUP_PREFIX \o r.tokenType,
                              <<lnum, startCharacter, lnum, endCharacter>>,
                              optsOf(r.tokenType)))

decode(legend, tokens) == highlightLoop(relatives(tokens, legend), 1, 0, 0, <<>>)

\* --------------------------------------------------- the delta applier
Min(a, b) == IF a < b THEN a ELSE b
Max(a, b) == IF a > b THEN a ELSE b

\* Array.prototype.splice(start, deleteCount, ...data) for start >= 0.
splice(tokens, start, deleteCount, data) ==
    LET from == Min(start, Len(tokens))
        del == Min(Max(deleteCount, 0), Len(tokens) - from)
    IN SubSeq(tokens, 1, from) \o data \o SubSeq(tokens, from + del + 1, Len(tokens))

applyEditInsertOnly(tokens, e) == splice(tokens, e.start, 0, e.data)

applyEdit(tokens, e) ==
    IF e.deleteCount > 0
    THEN splice(tokens, e.start, e.deleteCount, e.data)
    ELSE splice(tokens, e.start, 0, e.data)

RECURSIVE applyEditsReversed(_, _)
applyEditsReversed(tokens, edits) ==
    IF edits = <<>> THEN tokens
    ELSE applyEdit(applyEditsReversed(tokens, Tail(edits)), Head(edits))

\* result.edits.forEach(...): each edit against the array left by the one before.
RECURSIVE applyEdits(_, _)
applyEdits(tokens, edits) ==
    IF edits = <<>> THEN tokens
    ELSE applyEdits(applyEdit(tokens, Head(edits)), Tail(edits))

\* ---------------------------------------------------------------- state
VARIABLES
    timers,          \* pending timers of the debounced this.highlight
    tokenSource,     \* this.tokenSource: a token source, NoToken (null) or EndedSource
    cancelled,       \* the token sources of running invocations whose cancel() was called
    tasks,           \* the doHighlight invocations that are suspended at an await
    previousResults, \* this.previousResults
    _highlights,     \* this._highlights
    rendered,        \* the items painted in the namespace of the buffer
    heap,            \* the token array objects, by reference
    version,         \* doc.textDocument.version
    requests,        \* provider requests issued so far
    sinceDispose,    \* dispose() was called and no onChange/forceHighlight/setState since
    burst,           \* onChange calls since the timer was started
    settled,         \* where the rejection of the doHighlight promise that ended in
                     \* the last step went: "logged", "rejected" (to the caller of
                     \* forceHighlight), or "none" when no promise was rejected
    thrown,          \* what ended that promise: "none", "rejected" (the provider
                     \* or a collaborator failed) or "TypeError" (lines 122-127)
    flatTokens,      \* SpecDecode: the flat array given to the decoder
    decoded,         \* SpecDecode: what the decoder returned
    editList,        \* SpecEdits: result.edits of a delta response
    spliced          \* SpecEdits: the array after the edits

orchVars == <<timers, tokenSource, cancelled, tasks, previousResults, _highlights,
              rendered, heap, version, requests, sinceDispose, burst, settled,
              thrown>>
pureVars == <<flatTokens, decoded, editList, spliced>>
vars == <<orchVars, pureVars>>

\* An invocation of doHighlight is named by the slot it runs in, and so is
\* the token source it created; a slot is free again when its invocation ended.
Slots == 1..MaxRunning
Refs == 1..(MaxRunning + 1)

NoToken == 0
\* this.tokenSource still holds the source of an invocation that has ended.
EndedSource == -1

\* previousResults before the first success and after dispose(). truth is
\* the array the provider holds for resultId (the provider's side of the id).
UndefinedResult == [resultId |-> NoId, tokens |-> NoRef, version |-> -1, truth |-> <<>>]

\* An array-valued field that may be undefined.
UndefinedItems == [defined |-> FALSE, items |-> <<>>]
Items(items) == [defined |-> TRUE, items |-> items]

\* A JavaScript string | undefined used as a condition.
Truthy(resultId) == resultId > EmptyId

\* The flat arrays the provider answers with: no token, one token of type 0,
\* and one token whose typeIndex is beyond the legend.
FirstArray == <<0, 0, 3, 0, 0>>
TokenArrays ==
    { <<>>, FirstArray, <<1, 2, 2, 2, 1>> }

\* What doHighlight reads of its surroundings when it starts: this.config,
\* workspace.getDocument, languages.getLegend, languages.hasProvider and
\* languages.hasSemanticTokensEdits.
Surroundings ==
    LET ok == [config |-> [enabled |-> TRUE], doc |-> [exists |-> TRUE, attached |-> TRUE],
               hasLegend |-> TRUE, hasProvider |-> TRUE, hasEditProvider |-> TRUE]
    IN { ok,
         [ok EXCEPT !.hasEditProvider = FALSE],
         [ok EXCEPT !.config = [enabled |-> FALSE]],
         [ok EXCEPT !.doc = [exists |-> FALSE, attached |-> FALSE]],
         [ok EXCEPT !.doc = [exists |-> TRUE, attached |-> FALSE]],
         [ok EXCEPT !.hasLegend = FALSE],
         [ok EXCEPT !.hasProvider = FALSE] }

\* ------------------------------------------------------------ debounce
\* this.highlight(): the debounced function keeps one timer and restarts it.
highlightStacked(pending) == pending + 1

highlight(pending) == 1

\* this.highlight.clear()
clear(pending) == 0

\* --------------------------------------------------------------- cancel
\* A free slot: no invocation is suspended in it.
Idle ==
    [pc |-> "idle", via |-> "", kind |-> "none", previousResult |-> UndefinedResult,
     version |-> -1, items |-> <<>>, changed |-> FALSE, stale |-> FALSE]

\* cancel(): the current token source, when there is one, is cancelled.
cancel(source, done) == IF source \in Slots THEN done \cup {source} ELSE done

\* What a cancelled invocation still holds is dead: line 117 and line 178
\* return before anything of it is read again.
forget(ts, source) ==
    IF source \in Slots /\ ts[source].pc \in {"awaitProvider", "awaitDiff"}
    THEN [ts EXCEPT ![source] = [Idle EXCEPT !.pc = ts[source].pc, !.via = ts[source].via,
                                             !.changed = ts[source].changed,
                                             !.stale = ts[source].stale]]
    ELSE ts

\* An onChange(), a dispose() or a newer doHighlight happens: the invocations
\* that await diffHighlights have seen one while they waited.
interrupt(ts) ==
    [t \in DOMAIN ts |->
        IF ts[t].pc = "awaitDiff" THEN [ts[t] EXCEPT !.stale = TRUE] ELSE ts[t]]

\* get enabled()
enabled(cfg, doc, hasLegend, hasProvider) ==
    IF ~cfg.enabled THEN FALSE
    ELSE IF ~doc.exists \/ ~doc.attached THEN FALSE
    ELSE IF ~hasLegend THEN FALSE
    ELSE hasProvider

\* get previousVersion()
previousVersion ==
    IF previousResults = UndefinedResult THEN NoId ELSE previousResults.version

\* line 109: forceFull ? null : this.previousResults
previousResultOf(forceFull, prev) == IF forceFull THEN UndefinedResult ELSE prev

\* line 112: hasEditProvider && previousResult?.resultId
requestKindNoResultId(hasEditProvider, previousResult) ==
    IF hasEditProvider /\ previousResult # UndefinedResult THEN "delta" ELSE "full"

requestKind(hasEditProvider, previousResult) ==
    IF hasEditProvider /\ previousResult # UndefinedResult /\ Truthy(previousResult.resultId)
    THEN "delta" ELSE "full"

Running(t) == tasks[t].pc # "idle"

\* What requestHighlights reads of previousResult after its await: whether
\* it is defined, and its tokens (resultId went into the request).
held(previousResult) ==
    IF previousResult = UndefinedResult THEN UndefinedResult
    ELSE [UndefinedResult EXCEPT !.tokens = previousResult.tokens,
                                 !.truth = previousResult.truth]

\* requestHighlights up to its await (lines 106-116).
Requested(via, forceFull, hasEditProvider) ==
    LET previousResult == previousResultOf(forceFull, previousResults) IN
    [pc |-> "awaitProvider", via |-> via,
     kind |-> requestKind(hasEditProvider, previousResult),
     previousResult |-> held(previousResult), version |-> version, items |-> <<>>,
     changed |-> FALSE, stale |-> FALSE]

\* The array objects still referenced: by the cache or by a request that
\* holds the previous result.
LiveRefs(prev, ts) ==
    {prev.tokens} \cup {ts[t].previousResult.tokens : t \in DOMAIN ts}

collect(h, prev, ts) == [r \in DOMAIN h |-> IF r \in LiveRefs(prev, ts) THEN h[r] ELSE <<>>]

\* The reference of the array object of a full response to request t: the
\* first one that no other request holds (the cached array it replaces is
\* garbage unless a request holds it).
HeldRefs(t) == {tasks[u].previousResult.tokens : u \in Slots \ {t}}

NewRef(t) == CHOOSE r \in Refs : r \notin HeldRefs(t) /\ \A q \in 1..(r - 1) : q \in HeldRefs(t)

\* The slot of a new invocation.
NewSlot == CHOOSE t \in Slots : ~Running(t) /\ \A q \in 1..(t - 1) : Running(q)

doHighlightCancelsFirst(via, env) ==
    IF ~enabled(env.config, env.doc, env.hasLegend, env.hasProvider)
    THEN /\ cancelled' = cancel(tokenSource, cancelled)
         /\ tokenSource' = NoToken
         /\ tasks' = forget(tasks, tokenSource)
         /\ UNCHANGED requests
    ELSE /\ \E t \in Slots : ~Running(t)
         /\ requests < MaxRequests
         /\ requests' = requests + 1
         /\ cancelled' = cancel(tokenSource, cancelled)
         /\ tokenSource' = NewSlot
         /\ tasks' = [interrupt(forget(tasks, tokenSource)) EXCEPT
                         ![NewSlot] = Requested(via, FALSE, env.hasEditProvider)]

\* doHighlight up to its first await (lines 170-173).
doHighlight(via, env) ==
    IF ~enabled(env.config, env.doc, env.hasLegend, env.hasProvider)
    THEN UNCHANGED <<tokenSource, cancelled, tasks, requests>>
    ELSE /\ \E t \in Slots : ~Running(t)
         /\ requests < MaxRequests
         /\ requests' = requests + 1
         /\ cancelled' = cancel(tokenSource, cancelled)
         /\ tokenSource' = NewSlot
         /\ tasks' = [interrupt(forget(tasks, tokenSource)) EXCEPT
                         ![NewSlot] = Requested(via, FALSE, env.hasEditProvider)]

\* How the end of a doHighlight promise reaches its caller: the debounced
\* callback ends it with logError(), which logs a rejection; forceHighlight
\* awaits it, so that its own promise ends the same way.
settleSwallows(via, outcome) == "none"

settle(via, outcome) ==
    IF outcome = "resolved" THEN "none"
    ELSE IF via = "timer" THEN "logged" ELSE "rejected"

\* The end of the promise of invocation t: its slot is free again.
ends(t, outcome) ==
    /\ tasks' = [tasks EXCEPT ![t] = Idle]
    /\ cancelled' = cancelled \ {t}
    /\ settled' = settle(tasks[t].via, outcome)
    /\ thrown' = (IF outcome = "resolved" THEN "none" ELSE outcome)

\* this.tokenSource once invocation t has ended.
retire(t, source) == IF source = t THEN EndedSource ELSE source

\* ----------------------------------------------------- the environment
\* The edits a provider sends to turn the array it holds for the previous
\* resultId into the next one: the next array inserted behind the old one,
\* then the old one deleted (an insertion, then a deletion against its result).
EditsBetween(old, new) ==
    << [start |-> Len(old), deleteCount |-> 0, data |-> new],
       [start |-> 0, deleteCount |-> Len(old), data |-> <<>>] >>

\* The same edits as the protocol allows them too: data is optional, and the
\* deletion comes without it.
CompactEdits(old, new) ==
    << [start |-> Len(old), deleteCount |-> 0, data |-> new],
       [start |-> 0, deleteCount |-> Len(old)] >>

\* The array the provider holds for the result the request was issued after
\* (for a delta request, the one whose resultId the request names).
ProviderBase(task) == task.previousResult.truth

\* What the provider call of request t can end with: a rejection, nothing,
\* a full result or a delta. The results drawn: no token or one token with a
\* resultId, and the token beyond the legend with the empty resultId (which
\* line 112 takes like an undefined one).
BadArray == <<1, 2, 2, 2, 1>>
Answers ==
    {[resultId |-> SomeId, data |-> new] : new \in TokenArrays \ {BadArray}}
    \cup {[resultId |-> EmptyId, data |-> BadArray]}

Responses(t) ==
    { [type |-> "reject", resultId |-> NoId, data |-> <<>>, edits |-> <<>>],
      [type |-> "none", resultId |-> NoId, data |-> <<>>, edits |-> <<>>] }
    \cup { [type |-> "full", resultId |-> a.resultId, data |-> a.data, edits |-> <<>>] :
              a \in Answers }
    \cup { [type |-> "delta", resultId |-> a.resultId, data |-> a.data,
            edits |-> EditsBetween(ProviderBase(tasks[t]), a.data)] :
              a \in Answers }
    \cup { [type |-> "delta", resultId |-> SomeId, data |-> FirstArray,
            edits |-> CompactEdits(ProviderBase(tasks[t]), FirstArray)] }

\* window.diffHighlights: nothing to do when the items are those painted.
diffHighlights(painted, items) ==
    IF items = painted THEN UndefinedItems ELSE Items(items)

\* -------------------------------------------------------------- actions
OrchInit ==
    /\ timers = highlight(0)
    /\ tokenSource = NoToken
    /\ cancelled = {}
    /\ tasks = [t \in Slots |-> Idle]
    /\ previousResults = UndefinedResult
    /\ _highlights = UndefinedItems
    /\ rendered = <<>>
    /\ heap = [r \in Refs |-> <<>>]
    /\ version = 0
    /\ requests = 0
    /\ sinceDispose = FALSE
    /\ burst = 0
    /\ settled = "none"
    /\ thrown = "none"

Init ==
    /\ OrchInit
    /\ flatTokens = <<>>
    /\ decoded = UndefinedItems
    /\ editList = <<>>
    /\ spliced = UndefinedItems

\* onChange(): the document changed.
onChange ==
    /\ version < MaxVersion
    /\ version' = version + 1
    /\ cancelled' = cancel(tokenSource, cancelled)
    /\ tokenSource' = NoToken
    /\ timers' = highlight(timers)
    /\ tasks' = [t \in Slots |->
                    IF tasks[t].pc = "awaitProvider"
                    THEN [forget(tasks, tokenSource)[t] EXCEPT !.changed = TRUE]
                    ELSE interrupt(forget(tasks, tokenSource))[t]]
    /\ heap' = collect(heap, previousResults, tasks')
    /\ burst' = (IF timers = 0 THEN 0 ELSE burst) + 1
    /\ sinceDispose' = FALSE
    /\ settled' = "none" /\ thrown' = "none"
    /\ UNCHANGED <<requests, previousResults, _highlights, rendered, pureVars>>

\* The debounce timer fires: doHighlight().logError().
timerFires ==
    /\ timers > 0
    /\ timers' = timers - 1
    /\ \E env \in Surroundings : doHighlight("timer", env)
    /\ heap' = collect(heap, previousResults, tasks')
    /\ settled' = "none" /\ thrown' = "none"
    /\ UNCHANGED <<previousResults, _highlights, rendered, version,
                   sinceDispose, burst, pureVars>>

\* forceHighlight(): the timer is cleared and doHighlight awaited.
forceHighlight ==
    /\ timers' = clear(timers)
    /\ burst' = 0
    /\ sinceDispose' = FALSE
    /\ \E env \in Surroundings : doHighlight("force", env)
    /\ heap' = collect(heap, previousResults, tasks')
    /\ settled' = "none" /\ thrown' = "none"
    /\ UNCHANGED <<previousResults, _highlights, rendered, version, pureVars>>

\* buffer.clearNamespace(NAMESPACE)
clearHighlight(painted) == <<>>

\* setState(enabled)
setState(on) ==
    /\ IF on
       THEN /\ timers' = highlight(timers)
            /\ burst' = (IF timers = 0 THEN 0 ELSE burst)
            /\ UNCHANGED rendered
       ELSE /\ timers' = clear(timers)
            /\ burst' = 0
            /\ rendered' = clearHighlight(rendered)
    /\ sinceDispose' = FALSE
    /\ settled' = "none" /\ thrown' = "none"
    /\ UNCHANGED <<requests, tokenSource, cancelled, tasks, previousResults, _highlights, heap,
                   version, pureVars>>

\* dispose()
dispose ==
    /\ _highlights' = Items(<<>>)
    /\ timers' = clear(timers)
    /\ previousResults' = UndefinedResult
    /\ cancelled' = cancel(tokenSource, cancelled)
    /\ tokenSource' = NoToken
    /\ tasks' = interrupt(forget(tasks, tokenSource))
    /\ heap' = collect(heap, UndefinedResult, tasks')
    /\ burst' = 0
    /\ sinceDispose' = TRUE
    /\ settled' = "none" /\ thrown' = "none"
    /\ UNCHANGED <<requests, rendered, version, pureVars>>

\* lines 125 and 127: the spread ...e.data of an edit without data throws a
\* TypeError; the edits before it have spliced the array by then.
firstWithoutData(edits) ==
    LET without == {i \in DOMAIN edits : "data" \notin DOMAIN edits[i]}
    IN IF without = {} THEN 0 ELSE CHOOSE i \in without : \A j \in without : i <= j

discardsAbsentOnly(isCancellationRequested, r) == r.type = "none"

\* line 117: token.isCancellationRequested || !result
discards(isCancellationRequested, r) == isCancellationRequested \/ r.type = "none"

\* requestHighlights from its await on (lines 117-166) and doHighlight up to
\* its second await (lines 175-176), for the response r of request t.
providerResponds(t, r) ==
    LET task == tasks[t]
        full == r.type = "full"
        ref == IF full THEN NewRef(t) ELSE task.previousResult.tokens
        thrownAt == IF full THEN 0 ELSE firstWithoutData(r.edits)
        tokens == IF full THEN r.data
                  ELSE IF thrownAt = 0 THEN applyEdits(heap[ref], r.edits)
                  ELSE applyEdits(heap[ref], SubSeq(r.edits, 1, thrownAt - 1))
        res == decode(Legend, tokens)
    IN
    /\ task.pc = "awaitProvider"
    /\ IF \/ r.type = "reject"
          \/ discards(t \in cancelled, r)
          \/ ~full /\ task.previousResult = UndefinedResult
       THEN /\ ends(t, IF r.type = "reject" THEN "rejected"
                       ELSE IF discards(t \in cancelled, r) THEN "resolved"
                       ELSE "TypeError")
            /\ tokenSource' = retire(t, tokenSource)
            /\ heap' = collect(heap, previousResults, tasks')
            /\ UNCHANGED <<previousResults, _highlights>>
       ELSE IF thrownAt > 0
       THEN /\ Len(tokens) <= QUINT * MaxCached
            /\ ends(t, "TypeError")
            /\ tokenSource' = retire(t, tokenSource)
            /\ heap' = collect([heap EXCEPT ![ref] = tokens], previousResults, tasks')
            /\ UNCHANGED <<previousResults, _highlights>>
       ELSE /\ Len(tokens) <= QUINT * MaxCached
            /\ previousResults' = [resultId |-> r.resultId, tokens |-> ref,
                                   version |-> task.version, truth |-> r.data]
            /\ _highlights' = Items(res)
            /\ tasks' = [tasks EXCEPT ![t] =
                            [Idle EXCEPT !.pc = "awaitDiff", !.via = task.via, !.items = res,
                                         !.changed = task.changed]]
            /\ heap' = collect([heap EXCEPT ![ref] = tokens], previousResults', tasks')
            /\ settled' = "none" /\ thrown' = "none"
            /\ UNCHANGED <<tokenSource, cancelled>>
    /\ UNCHANGED <<requests, timers, rendered, version, sinceDispose, burst, pureVars>>

\* doHighlight from its second await on (lines 176-179): diffHighlights ended.
diffReturns(t, outcome) ==
    LET task == tasks[t]
        diff == IF outcome = "none" THEN UndefinedItems
                ELSE diffHighlights(rendered, task.items)
    IN
    /\ task.pc = "awaitDiff"
    /\ IF outcome = "throw"
       THEN /\ ends(t, "rejected")
            /\ tokenSource' = retire(t, tokenSource)
       ELSE /\ tokenSource' = NoToken
            /\ IF t \in cancelled \/ ~diff.defined
               THEN ends(t, "resolved")
               ELSE /\ tasks' = [tasks EXCEPT ![t].pc = "awaitApply"]
                    /\ settled' = "none" /\ thrown' = "none"
                    /\ UNCHANGED cancelled
    /\ UNCHANGED <<requests, timers, previousResults, _highlights, rendered, heap,
                   version, sinceDispose, burst, pureVars>>

\* applyDiffHighlights ended (line 179).
applyReturns(t, outcome) ==
    /\ tasks[t].pc = "awaitApply"
    /\ ends(t, IF outcome = "throw" THEN "rejected" ELSE "resolved")
    /\ tokenSource' = retire(t, tokenSource)
    /\ IF outcome = "throw"
       THEN UNCHANGED rendered
       ELSE rendered' = tasks[t].items
    /\ UNCHANGED <<requests, timers, previousResults, _highlights, heap,
                   version, sinceDispose, burst, pureVars>>

Next ==
    \/ onChange
    \/ timerFires
    \/ forceHighlight
    \/ \E on \in BOOLEAN : setState(on)
    \/ dispose
    \/ \E t \in Slots : \E r \in Responses(t) : providerResponds(t, r)
    \/ \E t \in Slots : \E outcome \in {"diff", "none", "throw"} : diffReturns(t, outcome)
    \/ \E t \in Slots : \E outcome \in {"ok", "throw"} : applyReturns(t, outcome)

Spec == Init /\ [][Next]_vars

\* --------------------------- the orchestrator in a steady environment
\* The feature stays enabled, the provider answers every request with a
\* result of the kind asked for, diffHighlights and applyDiffHighlights end
\* without an error, and neither setState nor dispose is called.
timerFiresEnabled == timerFires /\ requests' = requests + 1

forceHighlightEnabled == forceHighlight /\ requests' = requests + 1

providerAnswers(t) ==
    \E r \in Responses(t) :
        /\ r.type = (IF tasks[t].kind = "delta" THEN "delta" ELSE "full")
        /\ firstWithoutData(r.edits) = 0
        /\ providerResponds(t, r)

NextConverge ==
    \/ onChange
    \/ timerFiresEnabled
    \/ forceHighlightEnabled
    \/ \E t \in Slots : providerAnswers(t)
    \/ \E t \in Slots : diffReturns(t, "diff")
    \/ \E t \in Slots : applyReturns(t, "done")

SpecConverge == Init /\ [][NextConverge]_vars

\* ------------------------------------- the decoder as a pure function
\* The quintuples drawn: deltaLine and deltaStartCharacter up to MaxDelta, an
\* empty or a longest token, every type of the legend; tokens of type 1 carry
\* the modifier.
Quintuples ==
    {<<dl, ds, len, ty, ty % 2>> :
        dl \in 0..MaxDelta, ds \in 0..MaxDelta, len \in {0, MaxDelta},
        ty \in 0..(Len(Legend.tokenTypes) - 1)}

RECURSIVE Flatten(_)
Flatten(qs) == IF qs = <<>> THEN <<>> ELSE Head(qs) \o Flatten(Tail(qs))

FlatArrays == UNION {{Flatten(qs) : qs \in [1..n -> Quintuples]} : n \in 0..MaxQuints}

InitDecode ==
    /\ OrchInit
    /\ flatTokens \in FlatArrays
    /\ decoded = UndefinedItems
    /\ editList = <<>>
    /\ spliced = UndefinedItems

\* Lines 132-166 on flatTokens.
decodeTokens ==
    /\ ~decoded.defined
    /\ decoded' = Items(decode(Legend, flatTokens))
    /\ UNCHANGED <<orchVars, flatTokens, editList, spliced>>

NextDecode == decodeTokens

SpecDecode == InitDecode /\ [][NextDecode]_vars

\* ------------------------------- the delta applier as a pure function
\* The cached arrays drawn: 1..n, so that an element tells where it was, and
\* the array of one token.
ExampleArray == <<0, 0, 1, 0, 0>>
ExampleEdits ==
    << [start |-> 5, deleteCount |-> 0, data |-> <<1, 2, 3, 0, 0>>],
       [start |-> 0, deleteCount |-> 5, data |-> <<>>] >>

CachedArrays == {[i \in 1..n |-> i] : n \in 0..MaxTokens} \cup {ExampleArray}

\* The edits drawn against a cached array: every start up to its end and one
\* beyond, nothing, one or MaxTokens elements deleted, and as data nothing,
\* one new element, or the elements the edit deletes.
EditsOn(tokens) ==
    {[start |-> st, deleteCount |-> del, data |-> data] :
        st \in 0..(MaxTokens + 1), del \in {0, 1, MaxTokens},
        data \in {<<>>, <<7>>}}
    \cup UNION {{[start |-> st, deleteCount |-> del,
                  data |-> SubSeq(tokens, st + 1, st + del)] :
                    del \in 1..Min(MaxTokens, Len(tokens) - st)} : st \in 0..Len(tokens)}

EditLists(tokens) == UNION {[1..n -> EditsOn(tokens)] : n \in 0..MaxEdits}

InitEdits ==
    /\ OrchInit
    /\ \/ flatTokens \in CachedArrays /\ editList \in EditLists(flatTokens)
       \/ flatTokens = ExampleArray /\ editList = ExampleEdits
    /\ spliced = UndefinedItems
    /\ decoded = UndefinedItems

\* Lines 122-129 on the cached array flatTokens.
applyDelta ==
    /\ ~spliced.defined
    /\ spliced' = Items(applyEdits(flatTokens, editList))
    /\ UNCHANGED <<orchVars, flatTokens, editList, decoded>>

\* Lines 132-166 on the array the edits left, when it is one of whole
\* quintuples.
decodeSpliced ==
    /\ spliced.defined
    /\ ~decoded.defined
    /\ Len(spliced.items) % QUINT = 0
    /\ decoded' = Items(decode(Legend, spliced.items))
    /\ UNCHANGED <<orchVars, flatTokens, editList, spliced>>

NextEdits == applyDelta \/ decodeSpliced

SpecEdits == InitEdits /\ [][NextEdits]_vars

\* --------------------------------------------------------------- claims
Awaiting(t) == tasks[t].pc = "awaitProvider"

\* C1: a request that saw an onChange() while it awaited the provider never
\* gets past line 117: it neither writes previousResults (which the
\* invocation has done once it awaits diffHighlights) nor calls
\* applyDiffHighlights (which it has done once it awaits it).
C1_ChangedRequestIsDiscarded ==
    \A t \in Slots : tasks[t].changed => tasks[t].pc \notin {"awaitDiff", "awaitApply"}

\* C2: at most one request awaits the provider with a token that is not cancelled.
C2_OneLiveRequest ==
    Cardinality({t \in Slots : Awaiting(t) /\ t \notin cancelled}) <= 1

\* C3: the request of a forceHighlight() is a full request, never a delta request.
C3_ForceIsFull ==
    \A t \in Slots : Awaiting(t) /\ tasks[t].via = "force" => tasks[t].kind # "delta"

\* C4: the request a doHighlight issues is a delta request if and only if the
\* provider has edits and previousResults exists with a non-empty resultId, and
\* then previousResults.tokens is an array; otherwise it is a full request.
C4_DeltaIffEditsAndResultId ==
    [][\A via \in {"timer", "force"}, env \in Surroundings :
          requests' = requests + 1 /\ doHighlight(via, env) =>
              LET issued == tasks'[tokenSource']
                  delta == /\ env.hasEditProvider
                           /\ previousResults # UndefinedResult
                           /\ previousResults.resultId \notin {NoId, EmptyId}
              IN /\ issued.pc = "awaitProvider"
                 /\ issued.kind = (IF delta THEN "delta" ELSE "full")
                 /\ issued.kind = "delta" => previousResults.tokens \in Refs]_vars

\* C4 witness: a delta request awaits the provider.
C4_Witness == \E t \in Slots : Awaiting(t) /\ tasks[t].kind = "delta"

\* C5: setState(false) cancels the token of every request in flight, clears
\* the timer, clears the painted highlights and makes previousResults undefined.
C5_DisableInvalidates ==
    [][setState(FALSE) =>
          /\ \A t \in Slots : Awaiting(t) => t \in cancelled'
          /\ timers' = 0
          /\ rendered' = <<>>
          /\ previousResults' = UndefinedResult]_vars

\* C6: after dispose(), and until the next onChange/forceHighlight/setState,
\* no timer is pending, the token of every request that awaits the provider is
\* cancelled, previousResults is undefined and the snapshot is empty.
C6_DisposeIsFinal ==
    sinceDispose =>
        /\ timers = 0
        /\ \A t \in Slots : Awaiting(t) => t \in cancelled
        /\ previousResults = UndefinedResult
        /\ _highlights = Items(<<>>)

\* C7: there is never more than one timer; every onChange() leaves exactly one
\* pending; and when the timer fires after a burst of onChange() calls, no
\* timer is left and at most one request was issued.
C7_DebounceCoalesces ==
    [][/\ timers' <= 1
       /\ version' # version => timers' = 1 /\ burst' >= 1
       /\ timers' < timers /\ burst >= 1 /\ burst' = burst =>
             timers' = 0 /\ requests' <= requests + 1]_vars

\* C7 witness: the timer fired once after a burst of two onChange() calls and
\* its doHighlight issued a request.
C7_Witness ==
    /\ burst >= 2
    /\ timers = 0
    /\ \E t \in Slots : Awaiting(t) /\ tasks[t].via = "timer"

\* C8: no rejection of a doHighlight promise reaches the caller of forceHighlight.
C8_NoFailureReachesCaller == settled # "rejected"

\* An item made for a typeIndex beyond the legend.
UndefinedType(item) == item.hlGroup = HLGROUP_PREFIX \o "undefined"

\* C9: a response with a typeIndex beyond the legend yields no item: none is
\* handed to diffHighlights or applyDiffHighlights, none is in the snapshot
\* and none is painted.
C9_OutOfRangeTypeIsAnError ==
    /\ \A t \in Slots : \A i \in DOMAIN tasks[t].items : ~UndefinedType(tasks[t].items[i])
    /\ \A i \in DOMAIN rendered : ~UndefinedType(rendered[i])

\* The k-th quintuple of a flat array, and the position its token has by the
\* running sums of the deltas.
Quint(tokens, k) == SubSeq(tokens, QUINT * (k - 1) + 1, QUINT * k)

RECURSIVE LineOf(_, _)
LineOf(tokens, k) ==
    IF k = 0 THEN 0 ELSE LineOf(tokens, k - 1) + Quint(tokens, k)[1]

RECURSIVE StartOf(_, _)
StartOf(tokens, k) ==
    IF k = 0 THEN 0
    ELSE IF Quint(tokens, k)[1] # 0 THEN Quint(tokens, k)[2]
    ELSE StartOf(tokens, k - 1) + Quint(tokens, k)[2]

\* C10: the decoder emits one item per quintuple, in array order, at the
\* position the running sums of the deltas give, ending length characters on
\* on the same line; the items are non-decreasing in (line, startChar); an
\* empty array gives no item.
C10_DecodeIsCumulative ==
    decoded.defined =>
        LET items == decoded.items
            n == Len(flatTokens) \div QUINT
        IN /\ Len(items) = n
           /\ \A k \in 1..n :
                 items[k].range = <<LineOf(flatTokens, k), StartOf(flatTokens, k),
                                    LineOf(flatTokens, k),
                                    StartOf(flatTokens, k) + Quint(flatTokens, k)[3]>>
           /\ \A k \in 2..n :
                 \/ items[k - 1].range[1] < items[k].range[1]
                 \/ /\ items[k - 1].range[1] = items[k].range[1]
                    /\ items[k - 1].range[2] <= items[k].range[2]
           /\ flatTokens = <<>> => items = <<>>

\* C10 witness: two tokens decoded, the first not at character 0 and the
\* second on a later line.
C10_Witness ==
    /\ decoded.defined
    /\ Len(decoded.items) = 2
    /\ decoded.items[1].range[2] > 0
    /\ decoded.items[2].range[1] > decoded.items[1].range[1]

\* The array an edit leaves, element by element: the elements up to start
\* stay, those of the deleteCount positions behind start are gone, data
\* stands where they stood and the rest follows.
AfterEdit(tokens, e) ==
    LET n == Len(tokens)
        at == IF e.start > n THEN n ELSE e.start
        gone == Cardinality({i \in 1..n : i > e.start /\ i <= e.start + e.deleteCount})
    IN [i \in 1..(n - gone + Len(e.data)) |->
           IF i <= at THEN tokens[i]
           ELSE IF i <= at + Len(e.data) THEN e.data[i - at]
           ELSE tokens[i - Len(e.data) + gone]]

\* The array the first k edits leave, each applied to what the one before left.
RECURSIVE InOrder(_, _, _)
InOrder(tokens, edits, k) ==
    IF k = 0 THEN tokens ELSE AfterEdit(InOrder(tokens, edits, k - 1), edits[k])

\* C11: the array after a delta is the cached array with the edits applied in
\* the order delivered, each to the array the previous edit left; the two
\* edits of the example turn [0,0,1,0,0] into [1,2,3,0,0].
C11_EditsFoldInOrder ==
    spliced.defined =>
        /\ spliced.items = InOrder(flatTokens, editList, Len(editList))
        /\ flatTokens = ExampleArray /\ editList = ExampleEdits
              => spliced.items = <<1, 2, 3, 0, 0>>

\* C11 witness: the two edits of the example were applied.
C11_Witness ==
    /\ spliced.defined
    /\ flatTokens = ExampleArray
    /\ editList = ExampleEdits
    /\ spliced.items = <<1, 2, 3, 0, 0>>

\* An edit that replaces elements of the array by themselves.
IdentityEdit(tokens, e) ==
    /\ e.start + e.deleteCount <= Len(tokens)
    /\ e.deleteCount = Len(e.data)
    /\ e.data = SubSeq(tokens, e.start + 1, e.start + e.deleteCount)

\* C12: an edit whose data are the elements it deletes leaves the array as
\* it was, and the array decodes to the same items before and after it.
C12_IdentityEditRoundTrip ==
    spliced.defined /\ Len(editList) = 1 /\ IdentityEdit(flatTokens, editList[1]) =>
        /\ spliced.items = flatTokens
        /\ decoded.defined => decoded.items = decode(Legend, flatTokens)

\* C12 witness: an edit replaced two elements of the one-token array by
\* themselves and the array was decoded again.
C12_Witness ==
    /\ decoded.defined
    /\ flatTokens = ExampleArray
    /\ Len(editList) = 1
    /\ IdentityEdit(flatTokens, editList[1])
    /\ editList[1].deleteCount = 2
    /\ Len(decoded.items) = 1

\* C13: a doHighlight that starts while the feature is not enabled issues no
\* request and leaves previousResults, the snapshot, the painted highlights,
\* the current token source and every running invocation as they were.
C13_DisabledDoesNothing ==
    [][(\E env \in Surroundings :
          /\ ~enabled(env.config, env.doc, env.hasLegend, env.hasProvider)
          /\ \/ doHighlight("timer", env) /\ timerFires
             \/ doHighlight("force", env) /\ forceHighlight)
          => /\ requests' = requests
             /\ previousResults' = previousResults
             /\ _highlights' = _highlights
             /\ rendered' = rendered
             /\ tokenSource' = tokenSource
             /\ cancelled' = cancelled
             /\ tasks' = tasks]_vars

\* C13 witness: the timer an onChange() started has fired and no request was
\* ever issued.
C13_Witness ==
    /\ timers = 0
    /\ burst >= 1
    /\ requests = 0

\* C14: when the response to a request is absent, or its token is cancelled
\* when the response arrives, previousResults, the snapshot and the painted
\* highlights stay as they were and the invocation ends without awaiting
\* diffHighlights or applyDiffHighlights.
C14_AbsentOrCancelledIsDiscarded ==
    [][\A t \in Slots :
          /\ Awaiting(t)
          /\ tasks'[t].pc # "awaitProvider"
          /\ \/ t \in cancelled
             \/ \E r \in Responses(t) : r.type = "none" /\ providerResponds(t, r)
          => /\ tasks'[t].pc = "idle"
             /\ previousResults' = previousResults
             /\ _highlights' = _highlights
             /\ rendered' = rendered]_vars

\* C14 witness: the only request ever issued, from the timer of an
\* onChange(), was answered with nothing while its source was current, and
\* nothing was cached.
C14_Witness ==
    /\ requests = 1
    /\ \A t \in Slots : ~Running(t)
    /\ tokenSource = EndedSource
    /\ settled = "none"
    /\ burst >= 1
    /\ timers = 0
    /\ previousResults = UndefinedResult

\* C15: when diffHighlights returns to an invocation, applyDiffHighlights is
\* called if and only if no onChange(), dispose() or newer doHighlight
\* happened while the diff was awaited and the diff is not empty.
C15_AppliesIffNotCancelled ==
    [][\A t \in Slots : \A outcome \in {"diff", "none"} :
          diffReturns(t, outcome) =>
              (tasks'[t].pc = "awaitApply" <=>
                  /\ ~tasks[t].stale
                  /\ outcome = "diff"
                  /\ diffHighlights(rendered, tasks[t].items).defined)]_vars

\* C16: a delta response to a request that held no previous result is not
\* applied: nothing is cached, decoded, diffed or painted, and unless the
\* request was cancelled its promise ends in an error.
C16_DeltaNeedsCachedArray ==
    [][\A t \in Slots :
          /\ Awaiting(t)
          /\ tasks[t].previousResult = UndefinedResult
          /\ tasks'[t].pc # "awaitProvider"
          /\ \E r \in Responses(t) : r.type = "delta" /\ providerResponds(t, r)
          => /\ tasks'[t].pc = "idle"
             /\ previousResults' = previousResults
             /\ _highlights' = _highlights
             /\ rendered' = rendered
             /\ t \notin cancelled => settled' \in {"logged", "rejected"}]_vars

\* C16 witness: line 122 threw in the last step, before anything was cached.
C16_Witness == thrown = "TypeError" /\ previousResults = UndefinedResult /\ requests = 1

\* C17: whenever previousResults holds a resultId, previousResults.tokens is
\* the array the provider holds for that resultId.
C17_DeltaBaseIntegrity ==
    previousResults # UndefinedResult /\ Truthy(previousResults.resultId) =>
        heap[previousResults.tokens] = previousResults.truth

\* C18: between two dispose() calls the version in previousResults never
\* decreases from one cache write to the next.
C18_VersionNeverDecreases ==
    [][previousResults # UndefinedResult /\ previousResults' # UndefinedResult
          => previousResults'.version >= previousResults.version]_vars

\* Nothing is left to happen unless the document changes or a highlight is
\* forced: no timer is pending and no doHighlight is running.
Quiescent == timers = 0 /\ \A t \in Slots : ~Running(t)

\* C19: in a steady environment, once no timer is pending and no request is
\* outstanding (a state that only a change or a forced highlight ends), the
\* cache is the one written for the latest document version and the snapshot
\* holds the items of that response.
C19_ConvergesToLatest ==
    Quiescent =>
        /\ previousResults # UndefinedResult
        /\ previousResults.version = version
        /\ _highlights = Items(decode(Legend, previousResults.truth))

\* C20: either previousResults is undefined and the snapshot is unset or
\* empty, or the snapshot is the decode of previousResults.tokens.
C20_SnapshotIsDecodeOfCache ==
    IF previousResults = UndefinedResult
    THEN _highlights \in {UndefinedItems, Items(<<>>)}
    ELSE _highlights = Items(decode(Legend, heap[previousResults.tokens]))

====
